---- MODULE Spec2Model ----
(***************************************************************************)
(* Model of src/main.py: the MCP "api-test-server".  The handler           *)
(* handle_call_tool is a coroutine; it is cut into atomic steps at its     *)
(* await points (client.post and asyncio.sleep).  Each invocation's local  *)
(* state is a record inv[i]; the steps are pure operators on that record.  *)
(***************************************************************************)
EXTENDS Integers, Sequences, FiniteSets, TLC

\* ---------------------------------------------------------------- bounds
MaxCount == 2
MaxRetries == 4

\* ------------------------------------------------------ program constants
DefaultRetries_Four == 3 + 1
DefaultRetries == 3
BackoffBase == 2

\* The coroutine instances of handle_call_tool the server can have running.
Invs == {1, 2}

VARIABLES ENDPOINTS, inv, tools, fake_unique, synth

vars == <<ENDPOINTS, inv, tools, fake_unique, synth>>

\* ------------------------------------------------------------ config.json
\* CONFIG.get("endpoints", {}): a mapping key -> {path, fields}.  The file
\* itself is data; every subset of the three keys is a possible content.
EndpointKeys == {"products", "customers", "reset"}

ProductFields == [name |-> "word", sku |-> "sku"]
CustomerFields == [email |-> "email", nickname |-> "nick_name"]
NoFields == [none \in {} |-> "none"]

EndpointSpec(key) ==
    CASE key = "products"  -> [path |-> "/products", fields |-> ProductFields]
      [] key = "customers" -> [path |-> "/customers", fields |-> CustomerFields]
      [] key = "reset"     -> [path |-> "/admin/reset-test-db", fields |-> NoFields]

Configs == {[k \in S |-> EndpointSpec(k)] : S \in SUBSET EndpointKeys}

\* ------------------------------------------------------- handle_list_tools
Tool(name, required) == [name |-> name, required |-> required]

handle_list_tools_reset_first(endpoints) ==
    LET t1 == IF "products" \in DOMAIN endpoints
              THEN <<Tool("create_test_products", "count")>> ELSE <<>>
        t2 == IF "customers" \in DOMAIN endpoints
              THEN <<Tool("create_test_customers", "count")>> ELSE <<>>
        t3 == IF "reset" \in DOMAIN endpoints
              THEN <<Tool("clear_test_data", "confirm")>> ELSE <<>>
    IN  t3 \o t1 \o t2

handle_list_tools(endpoints) ==
    LET t1 == IF "products" \in DOMAIN endpoints
              THEN <<Tool("create_test_products", "count")>> ELSE <<>>
        t2 == IF "customers" \in DOMAIN endpoints
              THEN <<Tool("create_test_customers", "count")>> ELSE <<>>
        t3 == IF "reset" \in DOMAIN endpoints
              THEN <<Tool("clear_test_data", "confirm")>> ELSE <<>>
    IN  t1 \o t2 \o t3

\* ------------------------------------------------------ generate_fake_data
\* Producers of the Faker instance that hasattr(fake, tag) finds.
FakerProducers == {"word", "email"}

\* The values one tag can yield (two per random tag keep the payloads of
\* two records distinguishable).
Sentinel(tag) == <<"<no faker method: ", tag, ">">>

TagValues(tag) ==
    CASE tag = "int"   -> {<<"0">>, <<"1000">>}
      [] tag = "price" -> {<<"0.0">>, <<"99.99">>}
      [] tag = "sku"   -> {<<"ABCD-1234">>}
      [] tag \in FakerProducers -> IF tag = "email"
                                   THEN {<<"a@example.org">>, <<"b@example.org">>}
                                   ELSE {<<"lorem">>}
      [] OTHER -> {Sentinel(tag)}

\* Attributes of the Faker instance that hasattr(fake, tag) finds and that
\* are no producers: fake.unique is a UniqueProxy object, and calling it
\* (line 91) raises TypeError.
FakerNonCallable == {"unique"}

TypeErrorRaised == [exception |-> "TypeError"]

\* lines 84-91: the tag is none of int, price, sku, passes hasattr, and the
\* attribute found is called
ReachesCall(tag) == tag \in FakerNonCallable

\* The dicts one call can return, or the exception it raises.
generate_fake_data(field_map) ==
    IF \E k \in DOMAIN field_map : ReachesCall(field_map[k])
    THEN {TypeErrorRaised}
    ELSE {data \in [DOMAIN field_map ->
                        UNION {TagValues(field_map[k]) : k \in DOMAIN field_map}] :
            \A k \in DOMAIN field_map : data[k] \in TagValues(field_map[k])}

EmptyPayload == NoFields

\* ------------------------------------------------------------- Python values
None == [type |-> "NoneType"]

\* bool(v) for the values the confirm argument takes in this model, written
\* as Python literals: True, False, the string 'false', the integer 0, None.
ConfirmValues == {"True", "False", "'false'", "0"}
Truthy(v) == v \in {"True", "'false'"}

\* The arguments dict: keys says which keys are present.
Arguments(keys, count, confirm) == [keys |-> keys, count |-> count, confirm |-> confirm]

ArgumentSets ==
    {Arguments({}, 0, "None")}
    \cup {Arguments({"count"}, c, "None") : c \in 0..MaxCount}
    \cup {Arguments({"confirm"}, 0, v) : v \in ConfirmValues}

GetCount_DefaultZero(arguments, default) ==
    IF "count" \in arguments.keys THEN arguments.count ELSE 0

\* arguments.get(key, default)
GetCount(arguments, default) ==
    IF "count" \in arguments.keys THEN arguments.count ELSE default
GetConfirm(arguments) ==
    IF "confirm" \in arguments.keys THEN arguments.confirm ELSE "None"

\* line 144: not arguments.get("confirm")
NotConfirmed_FalseOnly(arguments) == GetConfirm(arguments) = "False"
NotConfirmed(arguments) == ~Truthy(GetConfirm(arguments))

ToolNames == {"create_test_products", "create_test_customers", "clear_test_data"}
CallNames == ToolNames \cup {"drop_database"}

\* Outcomes of one awaited client.post + raise_for_status + response.json:
\*   ok            2xx with a JSON body
\*   http_error    non-2xx: raise_for_status raises httpx.HTTPStatusError
\*   request_error transport failure or timeout: httpx.RequestError
\*   bad_json      2xx whose body response.json() cannot parse
PostOutcomes == {"ok", "http_error", "request_error", "bad_json"}
Bodies == {"A", "B"}

\* ------------------------------------------------------- invocation record
Idle ==
    [pc |-> "idle", name |-> "none", arguments |-> Arguments({}, 0, "None"),
     client |-> "none", count |-> 0, path |-> "none", fields |-> NoFields,
     k |-> 0, results |-> <<>>, response |-> "none", error |-> "none",
     clears |-> 0, opens |-> 0, closes |-> 0,
     endpoint |-> "none", payload |-> EmptyPayload, retries |-> 0, attempt |-> 0,
     ret |-> None, submitted |-> <<>>, posts |-> <<>>, naps |-> <<>>]

\* An exception leaves handle_call_tool (or, for a direct call, leaves
\* api_post_with_retry): the async-with block closes the client on the way.
Raise(s, exc) ==
    [s EXCEPT !.pc = "raised", !.error = exc,
              !.client = IF s.name \in CallNames THEN "closed" ELSE @,
              !.closes = IF s.name \in CallNames THEN @ + 1 ELSE @]

\* line 154: leave the async-with block and return the serialized results
Finish(s) ==
    [s EXCEPT !.pc = "returned", !.response = "results", !.client = "closed",
              !.closes = @ + 1]

\* line 145: the early return, which also leaves the async-with block
CancelledReturn_LeavesOpen(s) ==
    [s EXCEPT !.pc = "returned", !.response = "cancelled"]
CancelledReturn(s) ==
    [s EXCEPT !.pc = "returned", !.response = "cancelled", !.client = "closed",
              !.closes = @ + 1]

\* line 141 (customers only), then line 154
AfterLoop(s) ==
    IF s.name = "create_test_customers"
    THEN Finish([s EXCEPT !.clears = @ + 1])
    ELSE Finish(s)

\* line 105: client.post(endpoint, json=payload) is awaited
IssuePost(s) ==
    [s EXCEPT !.pc = "inflight",
              !.posts = Append(@, [rec |-> s.k, attempt |-> s.attempt,
                                   endpoint |-> s.endpoint, payload |-> s.payload,
                                   client |-> s.client,
                                   outcome |-> "pending", body |-> "none"])]

RECURSIVE Loop(_)

Return_AbortOnError(s, r) ==
    CASE s.name \in {"create_test_products", "create_test_customers"} ->
            IF r.status = "error"
            THEN {AfterLoop([s EXCEPT !.results = Append(@, r)])}
            ELSE Loop([s EXCEPT !.results = Append(@, r)])
      [] s.name = "clear_test_data" ->
            {Finish([s EXCEPT !.results = Append(@, r)])}
      [] OTHER -> {[s EXCEPT !.pc = "returned", !.ret = r]}

\* api_post_with_retry returns r to its caller (lines 129, 139, 149; or the
\* direct caller)
Return(s, r) ==
    CASE s.name \in {"create_test_products", "create_test_customers"} ->
            Loop([s EXCEPT !.results = Append(@, r)])
      [] s.name = "clear_test_data" ->
            {Finish([s EXCEPT !.results = Append(@, r)])}
      [] OTHER -> {[s EXCEPT !.pc = "returned", !.ret = r]}

\* lines 102-103: entry of api_post_with_retry; an empty range(1, retries+1)
\* falls off the end of the function, which returns None
api_post_with_retry(s, endpoint, payload, retries) ==
    LET s1 == [s EXCEPT !.endpoint = endpoint, !.payload = payload,
                        !.retries = retries, !.attempt = 1,
                        !.submitted = Append(@, [endpoint |-> endpoint,
                                                 payload |-> payload,
                                                 retries |-> retries])]
    IN  IF retries >= 1 THEN {IssuePost(s1)} ELSE Return(s1, None)

\* line 141 indented into the loop body
Loop_ClearsPerRecord(s) ==
    IF s.k < s.count
    THEN UNION {IF payload = TypeErrorRaised
                THEN {Raise([s EXCEPT !.k = @ + 1], "TypeError")}
                ELSE api_post_with_retry(
                         [s EXCEPT !.k = @ + 1,
                                   !.clears = IF s.name = "create_test_customers"
                                              THEN @ + 1 ELSE @],
                         s.path, payload, DefaultRetries) :
                    payload \in generate_fake_data(s.fields)}
    ELSE {AfterLoop(s)}

\* lines 126-129 / 136-139: for _ in range(count)
Loop(s) ==
    IF s.k < s.count
    THEN UNION {IF payload = TypeErrorRaised
                THEN {Raise([s EXCEPT !.k = @ + 1], "TypeError")}
                ELSE api_post_with_retry([s EXCEPT !.k = @ + 1], s.path, payload,
                                         DefaultRetries) :
                    payload \in generate_fake_data(s.fields)}
    ELSE {AfterLoop(s)}

\* line 107
SuccessResult(body) == [status |-> "success", data |-> body]

\* line 111
ErrorResult(e, payload) == [status |-> "error", error |-> e, payload |-> payload]

\* line 108: the exceptions the except clause catches
Caught == {"http_error", "request_error"}

\* line 110
LastAttempt_OffByOne(attempt, retries) == attempt >= retries - 1
LastAttempt(attempt, retries) == attempt = retries

\* line 112
BackoffDelay_FromOne(attempt) == BackoffBase ^ (attempt - 1)
BackoffDelay(attempt) == BackoffBase ^ attempt

\* the response of the POST in flight, kept in the log
Answered(s, outcome, body) ==
    [s EXCEPT !.posts[Len(s.posts)].outcome = outcome,
              !.posts[Len(s.posts)].body = IF outcome = "ok" THEN body ELSE "none"]

\* line 112 without its await: the delay is never waited for
Sleep_NotAwaited(s) ==
    IssuePost([s EXCEPT !.attempt = @ + 1,
                        !.naps = Append(@, [rec |-> s.k, attempt |-> s.attempt,
                                            delay |-> BackoffDelay(s.attempt),
                                            elapsed |-> FALSE])])

\* line 112: asyncio.sleep(2 ** attempt) is awaited
Sleep(s) ==
    [s EXCEPT !.pc = "sleeping",
              !.naps = Append(@, [rec |-> s.k, attempt |-> s.attempt,
                                  delay |-> BackoffDelay(s.attempt),
                                  elapsed |-> FALSE])]

PostDone_NoReturnOnSuccess(s, outcome, body) ==
    LET s1 == Answered(s, outcome, body)
    IN  CASE outcome = "ok" ->
                IF LastAttempt(s.attempt, s.retries)
                THEN Return(s1, SuccessResult(body))
                ELSE {Sleep(s1)}
          [] outcome \in Caught ->
                IF LastAttempt(s.attempt, s.retries)
                THEN Return(s1, ErrorResult(outcome, s.payload))
                ELSE {Sleep(s1)}
          [] OTHER -> {Raise(s1, "JSONDecodeError")}

\* lines 106-112: the awaited POST completes
PostDone(s, outcome, body) ==
    LET s1 == Answered(s, outcome, body)
    IN  CASE outcome = "ok" ->
                Return(s1, SuccessResult(body))
          [] outcome \in Caught ->
                IF LastAttempt(s.attempt, s.retries)
                THEN Return(s1, ErrorResult(outcome, s.payload))
                ELSE {Sleep(s1)}
          [] OTHER -> {Raise(s1, "JSONDecodeError")}

Wake_DropsPayload(s) ==
    LET s1 == [s EXCEPT !.attempt = @ + 1, !.naps[Len(s.naps)].elapsed = TRUE,
                        !.payload = EmptyPayload]
    IN  IF s1.attempt <= s.retries THEN {IssuePost(s1)} ELSE Return(s1, None)

\* line 112 returns: the for loop takes the next attempt
Wake(s) ==
    LET s1 == [s EXCEPT !.attempt = @ + 1, !.naps[Len(s.naps)].elapsed = TRUE]
    IN  IF s1.attempt <= s.retries THEN {IssuePost(s1)} ELSE Return(s1, None)

\* lines 151-152: no branch took the name
UnknownTool_ReturnsEmpty(s) == {Finish(s)}
UnknownTool(s) == {Raise(s, "ValueError")}

\* lines 117-152: handle_call_tool up to its first await (or its return)
handle_call_tool(name, arguments, endpoints) ==
    LET s0 == [Idle EXCEPT !.name = name, !.arguments = arguments, !.client = "open",
                           !.opens = 1]
    IN  IF name = "create_test_products" /\ "products" \in DOMAIN endpoints
        THEN Loop([s0 EXCEPT !.count = GetCount(arguments, 1),
                             !.fields = endpoints["products"].fields,
                             !.path = endpoints["products"].path])
        ELSE IF name = "create_test_customers" /\ "customers" \in DOMAIN endpoints
        THEN Loop([s0 EXCEPT !.count = GetCount(arguments, 1),
                             !.fields = endpoints["customers"].fields,
                             !.path = endpoints["customers"].path])
        ELSE IF name = "clear_test_data" /\ "reset" \in DOMAIN endpoints
        THEN IF NotConfirmed(arguments)
             THEN {CancelledReturn(s0)}
             ELSE api_post_with_retry([s0 EXCEPT !.path = endpoints["reset"].path],
                                      endpoints["reset"].path, EmptyPayload,
                                      DefaultRetries)
        ELSE UnknownTool(s0)

\* ------------------------------------------------------------------ actions
\* No direct call of generate_fake_data has been made.
NoSynth == [field_map |-> NoFields, out |-> NoFields, done |-> FALSE]

Init ==
    /\ ENDPOINTS \in Configs
    /\ inv = [i \in Invs |-> Idle]
    /\ tools = [listed |-> FALSE, value |-> <<>>]
    /\ fake_unique = {}
    /\ synth = NoSynth

\* The coroutine has ended: its value or exception is with the caller.
Ended(s) == s.pc \in {"returned", "raised"}

\* fake.unique.clear() empties the process-wide tracker
Step(i, n) ==
    /\ inv' = [inv EXCEPT ![i] = n]
    /\ fake_unique' = IF n.clears > inv[i].clears THEN {} ELSE fake_unique
    /\ UNCHANGED <<ENDPOINTS, tools, synth>>

CallTool(i) ==
    /\ inv[i].pc = "idle"
    /\ \E name \in CallNames, arguments \in ArgumentSets :
         \E n \in handle_call_tool(name, arguments, ENDPOINTS) : Step(i, n)

Respond(i) ==
    /\ inv[i].pc = "inflight"
    /\ \E outcome \in PostOutcomes, body \in Bodies :
         \E n \in PostDone(inv[i], outcome, body) : Step(i, n)

Resume(i) ==
    /\ inv[i].pc = "sleeping"
    /\ \E n \in Wake(inv[i]) : Step(i, n)

\* The caller has taken the outcome; the coroutine's frame is gone.
Collect(i) ==
    /\ Ended(inv[i])
    /\ Step(i, Idle)

ListTools ==
    /\ tools' = [listed |-> TRUE, value |-> handle_list_tools(ENDPOINTS)]
    /\ UNCHANGED <<ENDPOINTS, inv, fake_unique, synth>>

\* One invocation at a time: the transport delivers the next call after the
\* previous one has returned.
Next ==
    \/ CallTool(1)
    \/ Respond(1)
    \/ Resume(1)
    \/ Collect(1)
    \/ ListTools

Spec == Init /\ [][Next]_vars

\* Direct calls of api_post_with_retry, with every value of retries.
RetriesValues == {-1, 0} \cup (1..MaxRetries)
FullConfig == [k \in EndpointKeys |-> EndpointSpec(k)]
DirectPayloads == generate_fake_data(CustomerFields) \cup {EmptyPayload}

ExecInit ==
    /\ ENDPOINTS = FullConfig
    /\ inv = [i \in Invs |-> Idle]
    /\ tools = [listed |-> FALSE, value |-> <<>>]
    /\ fake_unique = {}
    /\ synth = NoSynth

ExecCall(i) ==
    /\ inv[i].pc = "idle"
    /\ \E key \in EndpointKeys, payload \in DirectPayloads, retries \in RetriesValues :
         \E n \in api_post_with_retry(
                    [Idle EXCEPT !.name = "api_post_with_retry", !.client = "open"],
                    ENDPOINTS[key].path, payload, retries) : Step(i, n)

ExecNext ==
    \/ ExecCall(1)
    \/ Respond(1)
    \/ Resume(1)
    \/ Collect(1)

ExecSpec == ExecInit /\ [][ExecNext]_vars

\* Two invocations of handle_call_tool interleaved at their await points, as
\* a transport that serves requests concurrently runs them.  The customers
\* field map here has one field, the calls are those that take each exit of
\* the handler, and the remote API answers with a 2xx, a non-2xx or a 2xx
\* that is no JSON.
ConcConfig ==
    [k \in EndpointKeys |->
        IF k = "customers"
        THEN [path |-> "/customers", fields |-> [nickname |-> "nick_name"]]
        ELSE EndpointSpec(k)]

ConcArguments ==
    {Arguments({}, 0, "None"), Arguments({"count"}, MaxCount, "None"),
     Arguments({"confirm"}, 0, "True")}

ConcOutcomes == {"ok", "http_error", "bad_json"}

ConcInit ==
    /\ ENDPOINTS = ConcConfig
    /\ inv = [i \in Invs |-> Idle]
    /\ tools = [listed |-> FALSE, value |-> <<>>]
    /\ fake_unique = {}
    /\ synth = NoSynth

ConcCall(i) ==
    /\ inv[i].pc = "idle"
    /\ \E name \in CallNames, arguments \in ConcArguments :
         \E n \in handle_call_tool(name, arguments, ENDPOINTS) : Step(i, n)

ConcRespond(i) ==
    /\ inv[i].pc = "inflight"
    /\ \E outcome \in ConcOutcomes :
         \E n \in PostDone(inv[i], outcome, "A") : Step(i, n)

ConcNext ==
    \E i \in Invs :
        \/ ConcCall(i)
        \/ ConcRespond(i)
        \/ Resume(i)
        \/ Collect(i)

ConcSpec == ConcInit /\ [][ConcNext]_vars

\* Direct calls of generate_fake_data, with every field map of up to two
\* fields over the tags below.
GenKeys == {"id", "label"}
GenTags == {"int", "price", "sku", "word", "email", "nick_name", "unique"}
FieldMaps == UNION {[S -> GenTags] : S \in SUBSET GenKeys}

GenInit ==
    /\ ENDPOINTS = FullConfig
    /\ inv = [i \in Invs |-> Idle]
    /\ tools = [listed |-> FALSE, value |-> <<>>]
    /\ fake_unique = {}
    /\ \E fm \in FieldMaps : synth = [field_map |-> fm, out |-> NoFields, done |-> FALSE]

Synthesize ==
    /\ ~synth.done
    /\ \E out \in generate_fake_data(synth.field_map) :
          synth' = [synth EXCEPT !.out = out, !.done = TRUE]
    /\ UNCHANGED <<ENDPOINTS, inv, tools, fake_unique>>

\* The caller keeps the field map and calls again.
SynthesizeAgain ==
    /\ synth.done
    /\ synth' = [synth EXCEPT !.out = NoFields, !.done = FALSE]
    /\ UNCHANGED <<ENDPOINTS, inv, tools, fake_unique>>

GenNext ==
    \/ Synthesize
    \/ SynthesizeAgain

GenSpec == GenInit /\ [][GenNext]_vars

\* ================================================================== claims
Failures == {"http_error", "request_error"}

Direct(s) == s.name = "api_post_with_retry"

Generation(s) == s.name \in {"create_test_products", "create_test_customers"}

RECURSIVE TotalDelay(_)
TotalDelay(naps) ==
    IF naps = <<>> THEN 0 ELSE Head(naps).delay + TotalDelay(Tail(naps))

\* 2^1 + ... + 2^n
RECURSIVE SumPow2(_)
SumPow2(n) == IF n <= 0 THEN 0 ELSE 2 ^ n + SumPow2(n - 1)

AllFailed(s) == \A j \in 1..Len(s.posts) : s.posts[j].outcome \in Failures

\* The requested number of attempts, as the caller passed it.
Asked(s) == s.submitted[1].retries

\* C1: a call of api_post_with_retry with max_attempts N >= 1 whose POST
\* fails on every attempt has, when it returns, issued exactly N POSTs,
\* slept exactly N-1 times (after attempts 1..N-1, never after attempt N) for
\* 2^1 + ... + 2^(N-1) time-units in total, and returns the error result that
\* carries the payload it was called with.
C1_ExhaustedRetries ==
    \A i \in Invs :
        LET s == inv[i] IN
        (Direct(s) /\ s.pc = "returned" /\ Asked(s) >= 1 /\ AllFailed(s)) =>
            /\ Len(s.posts) = Asked(s)
            /\ Len(s.naps) = Asked(s) - 1
            /\ \A j \in 1..Len(s.naps) : s.naps[j].attempt = j
            /\ TotalDelay(s.naps) = SumPow2(Asked(s) - 1)
            /\ s.ret = [status |-> "error",
                        error |-> s.posts[Len(s.posts)].outcome,
                        payload |-> s.submitted[1].payload]

C1_Witness ==
    \E i \in Invs :
        /\ Direct(inv[i]) /\ inv[i].pc = "returned" /\ AllFailed(inv[i])
        /\ Asked(inv[i]) = 3 /\ Len(inv[i].posts) = 3
        /\ TotalDelay(inv[i].naps) = 6
        /\ inv[i].ret.status = "error"
        /\ inv[i].ret.payload # EmptyPayload

\* C2: in a call of api_post_with_retry, a POST that succeeds is the last
\* one: if attempts 1..k-1 failed and attempt k succeeded then k <= N, exactly
\* k POSTs and k-1 suspensions were made, the call has returned the success
\* result carrying the parsed body of attempt k, and nothing follows.
C2_SuccessStops ==
    \A i \in Invs :
        LET s == inv[i] IN
        Direct(s) =>
            \A k \in 1..Len(s.posts) :
                s.posts[k].outcome = "ok" =>
                    /\ k = Len(s.posts)
                    /\ k <= Asked(s)
                    /\ \A j \in 1..(k - 1) : s.posts[j].outcome \in Failures
                    /\ Len(s.naps) = k - 1
                    /\ s.pc = "returned"
                    /\ s.ret = [status |-> "success", data |-> s.posts[k].body]

C2_Witness ==
    \E i \in Invs :
        /\ Direct(inv[i]) /\ inv[i].pc = "returned"
        /\ Asked(inv[i]) = 3
        /\ Len(inv[i].posts) = 2
        /\ inv[i].posts[1].outcome \in Failures
        /\ inv[i].posts[2].outcome = "ok"
        /\ inv[i].ret = [status |-> "success", data |-> "B"]

\* The last POST made for record r of an invocation.
LastPostOf(s, r) ==
    LET js == {j \in 1..Len(s.posts) : s.posts[j].rec = r}
    IN  s.posts[CHOOSE j \in js : \A h \in js : h <= j]

\* What the executor owes record r, read off the log of POSTs.
ResultOfRecord(s, r) ==
    LET p == LastPostOf(s, r)
    IN  IF p.outcome = "ok"
        THEN [status |-> "success", data |-> p.body]
        ELSE [status |-> "error", error |-> p.outcome,
              payload |-> s.submitted[r].payload]

\* C3: a create_test_products / create_test_customers invocation with
\* count = C that returns its result list returns exactly C entries, entry r
\* being the result of the r-th submitted record, however many of them are
\* errors.
C3_CountResultsInOrder ==
    \A i \in Invs :
        LET s == inv[i] IN
        (Generation(s) /\ s.pc = "returned" /\ "count" \in s.arguments.keys) =>
            /\ Len(s.results) = s.arguments.count
            /\ Len(s.submitted) = s.arguments.count
            /\ \A r \in 1..s.arguments.count :
                  /\ \E j \in 1..Len(s.posts) : s.posts[j].rec = r
                  /\ s.results[r] = ResultOfRecord(s, r)

C3_Witness ==
    \E i \in Invs :
        /\ Generation(inv[i]) /\ inv[i].pc = "returned"
        /\ "count" \in inv[i].arguments.keys /\ inv[i].arguments.count = 2
        /\ Len(inv[i].results) = 2
        /\ inv[i].results[1].status = "error"
        /\ inv[i].results[2].status = "success"

\* C4: a clear_test_data invocation whose confirm is absent or False issues
\* no POST, and (the reset endpoint being configured, so that the name is
\* dispatched) has returned the cancelled result.
Started(s) == s.pc # "idle"

C4_UnconfirmedCancelled ==
    \A i \in Invs :
        LET s == inv[i] IN
        (Started(s) /\ s.name = "clear_test_data"
            /\ GetConfirm(s.arguments) \in {"None", "False"}) =>
            /\ s.posts = <<>>
            /\ "reset" \in DOMAIN ENDPOINTS =>
                  (s.pc = "returned" /\ s.response = "cancelled" /\ s.results = <<>>)

C4_Witness ==
    \E i \in Invs :
        /\ inv[i].name = "clear_test_data" /\ inv[i].pc = "returned"
        /\ "confirm" \notin inv[i].arguments.keys
        /\ "reset" \in DOMAIN ENDPOINTS
        /\ inv[i].response = "cancelled"

ConfirmedClear(s) ==
    /\ Started(s) /\ s.name = "clear_test_data"
    /\ GetConfirm(s.arguments) = "True"
    /\ "reset" \in DOMAIN ENDPOINTS

\* C5 as stated: a clear_test_data invocation with confirm = True has made,
\* when it ends, exactly one network call, to the reset path with an empty
\* body, whatever the outcome of that call.
C5_ExactlyOnePost ==
    \A i \in Invs :
        LET s == inv[i] IN
        (ConfirmedClear(s) /\ Ended(s)) =>
            /\ Len(s.posts) = 1
            /\ s.posts[1].endpoint = ENDPOINTS["reset"].path
            /\ s.posts[1].payload = EmptyPayload

\* C5 as amended: a clear_test_data invocation with confirm = True makes
\* exactly one call of api_post_with_retry, for the reset path with an empty
\* body; it issues at least one and at most 3 POSTs, every one of them to the
\* reset path with an empty body, and a further POST only after a failed one
\* (so exactly one POST when the first attempt gets a 2xx response).
C5_OneCallAtMostThreePosts ==
    \A i \in Invs :
        LET s == inv[i] IN
        ConfirmedClear(s) =>
            /\ s.submitted = <<[endpoint |-> "/admin/reset-test-db",
                                payload |-> EmptyPayload, retries |-> 3]>>
            /\ Len(s.posts) >= 1 /\ Len(s.posts) <= 3
            /\ \A j \in 1..Len(s.posts) :
                  /\ s.posts[j].endpoint = ENDPOINTS["reset"].path
                  /\ s.posts[j].payload = EmptyPayload
                  /\ s.posts[j].attempt = j
                  /\ j < Len(s.posts) => s.posts[j].outcome \in Failures
            /\ Ended(s) => Len(s.results) = IF s.pc = "returned" THEN 1 ELSE 0

C5_Witness ==
    \E i \in Invs :
        /\ ConfirmedClear(inv[i]) /\ inv[i].pc = "returned"
        /\ Len(inv[i].posts) = 3
        /\ inv[i].posts[3].outcome = "ok"
        /\ inv[i].results = <<[status |-> "success", data |-> "A"]>>

\* C6 as stated: clear_test_data reaches the network only when confirm is
\* the boolean True; any other value issues no POST.
C6_OnlyBooleanTrue ==
    \A i \in Invs :
        (inv[i].name = "clear_test_data" /\ inv[i].posts # <<>>) =>
            GetConfirm(inv[i].arguments) = "True"

\* The names handle_list_tools returns for the loaded configuration.
ListedNames ==
    LET listing == handle_list_tools(ENDPOINTS)
    IN  {listing[j].name : j \in 1..Len(listing)}

\* C7: an invocation of a name that handle_list_tools does not list ends
\* with the unknown-tool error before any POST; an invocation of a listed
\* name never reports unknown-tool.
C7_UnknownIffUnlisted ==
    \A i \in Invs :
        LET s == inv[i] IN
        (Started(s) /\ s.name \in CallNames) =>
            IF s.name \in ListedNames
            THEN s.error # "ValueError"
            ELSE s.pc = "raised" /\ s.error = "ValueError" /\ s.posts = <<>>

C7_Witness ==
    \E i \in Invs :
        /\ inv[i].name = "clear_test_data" /\ inv[i].pc = "raised"
        /\ inv[i].arguments.confirm = "True"
        /\ "reset" \notin DOMAIN ENDPOINTS
        /\ DOMAIN ENDPOINTS # {}

\* C8: the listing is exactly the tools whose key is configured, once each,
\* in the order products, customers, reset.
CatalogOrder ==
    <<[key |-> "products", name |-> "create_test_products"],
      [key |-> "customers", name |-> "create_test_customers"],
      [key |-> "reset", name |-> "clear_test_data"]>>

RECURSIVE NamesPresent(_, _)
NamesPresent(order, keys) ==
    IF order = <<>> THEN <<>>
    ELSE (IF Head(order).key \in keys THEN <<Head(order).name>> ELSE <<>>)
         \o NamesPresent(Tail(order), keys)

C8_ListingFollowsConfig ==
    tools.listed =>
        LET names == [j \in 1..Len(tools.value) |-> tools.value[j].name] IN
        /\ names = NamesPresent(CatalogOrder, DOMAIN ENDPOINTS)
        /\ DOMAIN ENDPOINTS = {"products"} => names = <<"create_test_products">>
        /\ DOMAIN ENDPOINTS = EndpointKeys =>
              names = <<"create_test_products", "create_test_customers",
                        "clear_test_data">>

C8_Witness ==
    /\ tools.listed
    /\ DOMAIN ENDPOINTS = {"customers", "reset"}
    /\ Len(tools.value) = 2
    /\ tools.value[2].name = "clear_test_data"

\* C9 as stated: no call of api_post_with_retry ends by an exception
\* propagating to its caller.
C9_NeverRaises ==
    \A i \in Invs : Direct(inv[i]) => inv[i].pc # "raised"

\* The example of C10: two products, the first POST fails twice and then
\* succeeds, the second succeeds at once.
TwoProductsExample(s) ==
    /\ s.name = "create_test_products" /\ s.pc = "returned"
    /\ "count" \in s.arguments.keys /\ s.arguments.count = 2
    /\ Len(s.posts) = 4
    /\ s.posts[1].outcome \in Failures /\ s.posts[2].outcome \in Failures
    /\ s.posts[3].outcome = "ok" /\ s.posts[4].outcome = "ok"

DelaysOf(s, r) ==
    LET mine == SelectSeq(s.naps, LAMBDA n : n.rec = r)
    IN  [j \in 1..Len(mine) |-> mine[j].delay]

ExampleResults(s) ==
    <<[status |-> "success", data |-> s.posts[3].body],
      [status |-> "success", data |-> s.posts[4].body]>>

\* C10 as stated: in the example the results are the two successes and the
\* first record waits 1 and then 2 time-units; the delay after failed attempt
\* 1 is 1 unit and after failed attempt 2 is 2 units.
C10_DelaysOneThenTwo ==
    \A i \in Invs :
        LET s == inv[i] IN
        /\ TwoProductsExample(s) =>
              /\ s.results = ExampleResults(s)
              /\ DelaysOf(s, 1) = <<1, 2>> /\ DelaysOf(s, 2) = <<>>
        /\ \A j \in 1..Len(s.naps) :
              /\ s.naps[j].attempt = 1 => s.naps[j].delay = 1
              /\ s.naps[j].attempt = 2 => s.naps[j].delay = 2

\* C10 as amended: in the example the results are the two successes and the
\* first record waits 2 and then 4 time-units; the delay after failed
\* non-final attempt a is 2^a: 2 units for a = 1 and 4 units for a = 2.
C10_DelaysTwoThenFour ==
    \A i \in Invs :
        LET s == inv[i] IN
        /\ TwoProductsExample(s) =>
              /\ s.results = ExampleResults(s)
              /\ DelaysOf(s, 1) = <<2, 4>> /\ DelaysOf(s, 2) = <<>>
        /\ \A j \in 1..Len(s.naps) :
              /\ s.naps[j].attempt = 1 => s.naps[j].delay = 2
              /\ s.naps[j].attempt = 2 => s.naps[j].delay = 4

C10_Witness ==
    \E i \in Invs :
        /\ TwoProductsExample(inv[i])
        /\ inv[i].results = <<[status |-> "success", data |-> "A"],
                              [status |-> "success", data |-> "B"]>>
        /\ Len(inv[i].naps) = 2

Pending(s) == {j \in 1..Len(s.posts) : s.posts[j].outcome = "pending"}

\* C11: within one invocation at most one POST is in flight, and it is the
\* latest one; the POSTs go record by record, the first POST of record r
\* being issued only when the results of records 1..r-1 have been appended;
\* a retry follows a failed attempt of the same record whose backoff delay
\* has elapsed; while the invocation sleeps no POST is in flight.
C11_OnePostAtATime ==
    \A i \in Invs :
        LET s == inv[i] IN
        /\ \A j \in 1..Len(s.posts) :
              s.posts[j].outcome = "pending" <=> (j = Len(s.posts) /\ s.pc = "inflight")
        /\ s.pc = "inflight" => s.posts # <<>>
        /\ \A j \in 1..Len(s.naps) :
              s.naps[j].elapsed <=> (j < Len(s.naps) \/ s.pc # "sleeping")
        /\ Generation(s) =>
              \A j \in 1..Len(s.posts) :
                  /\ s.posts[j].rec \in 1..s.count
                  /\ s.posts[j].outcome = "pending" =>
                        Len(s.results) = s.posts[j].rec - 1
                  /\ s.posts[j].outcome # "pending" =>
                        Len(s.results) >= s.posts[j].rec - 1
        /\ \A j \in 1..(Len(s.posts) - 1) :
              IF s.posts[j + 1].rec = s.posts[j].rec
              THEN /\ s.posts[j].outcome \in Failures
                   /\ s.posts[j + 1].attempt = s.posts[j].attempt + 1
                   /\ \E n \in 1..Len(s.naps) :
                         /\ s.naps[n].rec = s.posts[j].rec
                         /\ s.naps[n].attempt = s.posts[j].attempt
                         /\ s.naps[n].elapsed
              ELSE /\ s.posts[j + 1].rec = s.posts[j].rec + 1
                   /\ s.posts[j + 1].attempt = 1
                   /\ s.posts[j].outcome # "pending"

C11_Witness ==
    \E i \in Invs :
        /\ Generation(inv[i]) /\ inv[i].pc = "inflight"
        /\ inv[i].count = 2 /\ Len(inv[i].results) = 1
        /\ inv[i].results[1].status = "error"
        /\ Len(inv[i].posts) = 5 /\ inv[i].posts[5].rec = 2
        /\ inv[i].posts[5].attempt = 2
        /\ Len(inv[i].naps) = 3

\* C12 as stated: a generation invocation that has issued a POST ends by
\* returning the full result list, never by an error; an invocation that ends
\* with unknown-tool or cancelled has issued no POST.
C12_BatchNeverAborts ==
    \A i \in Invs :
        LET s == inv[i] IN
        /\ (Generation(s) /\ Ended(s) /\ s.posts # <<>>) =>
              /\ s.pc = "returned" /\ s.response = "results"
              /\ Len(s.results) = s.count
        /\ (Ended(s) /\ (s.error = "ValueError" \/ s.response = "cancelled")) =>
              s.posts = <<>>

C14_CustomersAlwaysClear ==
    \A i \in Invs :
        LET s == inv[i] IN
        /\ (s.name = "create_test_customers" /\ "customers" \in DOMAIN ENDPOINTS
              /\ Ended(s)) =>
              (s.clears = 1 /\ Len(s.results) = s.count /\ fake_unique = {})
        /\ (s.name = "create_test_customers" /\ ~Ended(s)) => s.clears = 0
        /\ s.name \in {"create_test_products", "clear_test_data"} => s.clears = 0

NoCount == Arguments({}, 0, "None")
CountOne == Arguments({"count"}, 1, "None")

\* The first step of an invocation, the arguments themselves left aside.
FirstStep(name, arguments) ==
    {[n EXCEPT !.arguments = NoCount] : n \in handle_call_tool(name, arguments, ENDPOINTS)}

C18_SamePayloadLastError ==
    \A i \in Invs :
        LET s == inv[i] IN
        Direct(s) =>
            /\ \A j \in 1..Len(s.posts) :
                  /\ s.posts[j].endpoint = s.submitted[1].endpoint
                  /\ s.posts[j].payload = s.submitted[1].payload
                  /\ s.posts[j].attempt = j
            /\ (s.pc = "returned" /\ s.ret # None /\ s.ret.status = "error") =>
                  /\ s.ret.payload = s.submitted[1].payload
                  /\ s.ret.error = s.posts[Len(s.posts)].outcome
                  /\ Len(s.posts) = Asked(s)

C18_Witness ==
    \E i \in Invs :
        /\ Direct(inv[i]) /\ inv[i].pc = "returned"
        /\ Len(inv[i].posts) = 3
        /\ inv[i].posts[1].outcome = "http_error"
        /\ inv[i].posts[3].outcome = "request_error"
        /\ inv[i].ret.status = "error"
        /\ inv[i].ret.error = "request_error"
        /\ inv[i].ret.payload = inv[i].posts[1].payload
        /\ inv[i].ret.payload # EmptyPayload

\* C19 as stated: whatever the value of retries, a call of
\* api_post_with_retry that returns returns a success or an error result,
\* never None.
C19_AlwaysAResult ==
    \A i \in Invs :
        (Direct(inv[i]) /\ inv[i].pc = "returned") =>
            /\ inv[i].ret # None
            /\ "status" \in DOMAIN inv[i].ret
            /\ inv[i].ret.status \in {"success", "error"}

\* C20 as stated (its bounds, at the end of the invocation): a dispatched
\* generation invocation with count C ends by returning, having issued at
\* least C and at most 3*C POSTs and at most 2*C suspensions; a confirmed
\* clear_test_data ends by returning after at most 3 POSTs and 2 suspensions.
C20_ReturnsWithinBounds ==
    \A i \in Invs :
        LET s == inv[i] IN
        /\ (Generation(s) /\ s.name \in ListedNames /\ Ended(s)) =>
              /\ s.pc = "returned"
              /\ Len(s.posts) >= s.count /\ Len(s.posts) <= 3 * s.count
              /\ Len(s.naps) <= 2 * s.count
        /\ (ConfirmedClear(s) /\ Ended(s)) =>
              /\ s.pc = "returned"
              /\ Len(s.posts) <= 3 /\ Len(s.naps) <= 2

\* C17 as stated: for every field map, generate_fake_data returns a payload
\* whose keys are the field map's keys and never fails; a tag that is neither
\* int, price, sku nor a producer yields the sentinel naming it.
C17_SynthesisNeverFails ==
    synth.done =>
        /\ synth.out # TypeErrorRaised
        /\ DOMAIN synth.out = DOMAIN synth.field_map
        /\ \A k \in DOMAIN synth.field_map :
              synth.field_map[k] \notin ({"int", "price", "sku"} \cup FakerProducers)
                  => synth.out[k] = Sentinel(synth.field_map[k])

====
